---- MODULE Spec2Model ----
(***************************************************************************)
(* Model of bin/sync.js (wp-sync): command-line parsing, environment       *)
(* resolution, confirmation gates, target dispatch, the file-sync adapter, *)
(* the database pipeline and the two-process pipe.                         *)
(***************************************************************************)
EXTENDS Integers, Sequences, FiniteSets, TLC

VARIABLES
    argv,          \* process.argv.slice(2), a sequence of argument records
    config,        \* the parsed sync.config.json (environments and their fields)
    localDirs,     \* the file targets whose local wp-content directory exists
    caller,        \* "main": the sync.js process; "harness": pipeProcesses called on its own
    pc,            \* position of main()
    exitCode,      \* Running while the process lives, else the process exit code
    cmd,           \* main: cmd
    dryRun,        \* main: dryRun
    useAll,        \* main: useAll
    envName,       \* main: envName
    targets,       \* main: targets
    selected,      \* main: selectedTargets
    idx,           \* main: position of the for..of loop over selectedTargets
    prodTyped,     \* what the operator typed at the production prompt
    dbTyped,       \* what the operator typed at the database overwrite prompt
    trace,         \* history of externally visible operations, in order
    files,         \* dump files present under the backup root
    destDb,        \* content of the database being overwritten
    srcSt,         \* pipe: state of the source child process
    snkSt,         \* pipe: state of the sink child process
    srcExited,     \* pipeProcesses: srcExited
    snkExited,     \* pipeProcesses: snkExited
    errorOccurred, \* pipeProcesses: errorOccurred
    settled,       \* pipeProcesses: state of the returned promise
    settleCalls,   \* pipeProcesses: number of resolve()/reject() calls made
    fatalMsg,      \* the error that ended the process, NoError while there is none
    urlString,     \* normalizeDomain called on its own: the argument of the first call
    normalized,    \* results of normalizeDomain applied once, then to its own result
    logExists,     \* log(): whether the active log file exists
    logSize,       \* log(): size in bytes of the active log file
    archives,      \* log(): the Date.now() suffixes of the files named <log>.<suffix>
    now,           \* log(): the clock, in milliseconds
    writes,        \* log(): number of calls made
    lastWrite,     \* log(): what the last call found and did
    isWpEnvStopped, \* start-dev: the flag of stopWpEnv
    wpEnvStops,    \* start-dev: number of times `wp-env stop` was run
    vite,          \* start-dev: the Vite child process and its pending 'exit' event
    sigints,       \* start-dev: SIGINT signals handled
    timers,        \* start-dev: force-kill timers pending
    exitListeners, \* start-dev: listeners registered for the child's 'exit' event
    dev,           \* start-dev: the script's own process
    items,         \* limitConcurrency: number of items (item k is the k-th of the list)
    maxConcurrency, \* limitConcurrency: its third argument
    lc             \* limitConcurrency: position, inFlight, invocations and their settling

vars == <<argv, config, localDirs, caller, pc, exitCode, cmd, dryRun, useAll, envName,
          targets, selected, idx, prodTyped, dbTyped, trace, files, destDb, fatalMsg,
          srcSt, snkSt, srcExited, snkExited, errorOccurred, settled, settleCalls,
          urlString, normalized, logExists, logSize, archives, now, writes, lastWrite,
          isWpEnvStopped, wpEnvStops, vite, sigints, timers, exitListeners, dev,
          items, maxConcurrency, lc>>

mainVars == <<cmd, dryRun, useAll, envName, targets, selected, idx>>
promptVars == <<prodTyped, dbTyped>>
worldVars == <<trace, files, destDb, localDirs>>
pipeVars == <<srcSt, snkSt, srcExited, snkExited, errorOccurred, settled, settleCalls>>
inputVars == <<argv, config, caller>>
normVars == <<urlString, normalized>>
\* the variables of the functions that are run on their own
logVars == <<logExists, logSize, archives, now, writes, lastWrite>>
devVars == <<isWpEnvStopped, wpEnvStops, vite, sigints, timers, exitListeners, dev>>
lcVars == <<items, maxConcurrency, lc>>
unitVars == <<normVars, logVars, devVars, lcVars>>

(***************************************************************************)
(* JavaScript values                                                       *)
(***************************************************************************)
Undefined == "undefined"
TrueVal == "true"
Running == -1

Truthy(v) == v # Undefined /\ v # ""

(***************************************************************************)
(* Bounds of the explored inputs                                           *)
(***************************************************************************)
MaxTargetWords == 1

(***************************************************************************)
(* Command-line arguments.  An argument is a word (no leading dash), a    *)
(* single-dash cluster of letters, a lone long option or a long option     *)
(* with an inline value.                                                   *)
(***************************************************************************)
Word(s) == [k |-> "word", s |-> s, v |-> "", letters |-> <<>>]
ShortArg(ls) == [k |-> "short", s |-> "", v |-> "", letters |-> ls]
LongArg(n) == [k |-> "long", s |-> n, v |-> "", letters |-> <<>>]
LongValArg(n, val) == [k |-> "longval", s |-> n, v |-> val, letters |-> <<>>]

RECURSIVE Join(_)
Join(ls) == IF ls = <<>> THEN "" ELSE Head(ls) \o Join(Tail(ls))

\* The text of an argument as it stands in argv.
ArgText(a) ==
    CASE a.k = "word" -> a.s
      [] a.k = "short" -> "-" \o Join(a.letters)
      [] a.k = "long" -> "--" \o a.s
      [] OTHER -> "--" \o a.s \o "=" \o a.v

\* parseArgs options of main().
OptionNames == {"dryRun", "all", "help", "env", "t", "p", "m", "l", "u", "d", "replace"}
OptionShort == [o \in OptionNames |->
    CASE o = "dryRun" -> "n"
      [] o = "all" -> "a"
      [] o = "help" -> "h"
      [] o = "env" -> "e"
      [] o = "replace" -> "R"
      [] OTHER -> o]
OptionType == [o \in OptionNames |->
    IF o \in {"env", "replace"} THEN "string" ELSE "boolean"]

\* node:util parseArgs, findLongOptionForShort: an unknown short option is
\* taken as a long option of the same name.
findLongOptionForShort(ch) ==
    IF \E o \in OptionNames : OptionShort[o] = ch
    THEN CHOOSE o \in OptionNames : OptionShort[o] = ch
    ELSE ch

TypeOf(long) == IF long \in OptionNames THEN OptionType[long] ELSE Undefined

OptionToken(name, dashes, raw, value) ==
    [kind |-> "option", name |-> name, dashes |-> dashes, rawName |-> raw, value |-> value]
PositionalToken(value) ==
    [kind |-> "positional", name |-> "", dashes |-> 0, rawName |-> "", value |-> value]

\* node:util parseArgs, expansion of a short option group (-fXzy to -f -X -z -y):
\* a string-typed option that is not last takes the rest of the group as value.
RECURSIVE ExpandGroup(_)
ExpandGroup(ls) ==
    IF ls = <<>> THEN <<>>
    ELSE IF TypeOf(findLongOptionForShort(Head(ls))) # "string" \/ Len(ls) = 1
         THEN <<ShortArg(<<Head(ls)>>)>> \o ExpandGroup(Tail(ls))
         ELSE <<ShortArg(ls)>>

\* node:util parseArgs with strict: false, tokens: true (argsToTokens).
RECURSIVE argsToTokens(_)
argsToTokens(rem) ==
    IF rem = <<>> THEN <<>>
    ELSE
      LET arg == Head(rem)
          rest == Tail(rem)
      IN
      CASE arg.k = "short" /\ Len(arg.letters) = 1 ->
             LET long == findLongOptionForShort(arg.letters[1])
                 takes == TypeOf(long) = "string" /\ rest # <<>>
             IN <<OptionToken(long, 1, arg.letters[1],
                              IF takes THEN ArgText(Head(rest)) ELSE Undefined)>>
                \o argsToTokens(IF takes THEN Tail(rest) ELSE rest)
        [] arg.k = "short" /\ Len(arg.letters) > 1
             /\ TypeOf(findLongOptionForShort(arg.letters[1])) # "string" ->
             argsToTokens(ExpandGroup(arg.letters) \o rest)
        [] arg.k = "short" /\ Len(arg.letters) > 1
             /\ TypeOf(findLongOptionForShort(arg.letters[1])) = "string" ->
             <<OptionToken(findLongOptionForShort(arg.letters[1]), 1, arg.letters[1],
                           Join(Tail(arg.letters)))>>
             \o argsToTokens(rest)
        [] arg.k = "long" ->
             LET takes == TypeOf(arg.s) = "string" /\ rest # <<>>
             IN <<OptionToken(arg.s, 2, arg.s,
                              IF takes THEN ArgText(Head(rest)) ELSE Undefined)>>
                \o argsToTokens(IF takes THEN Tail(rest) ELSE rest)
        [] arg.k = "longval" ->
             <<OptionToken(arg.s, 2, arg.s, arg.v)>> \o argsToTokens(rest)
        [] OTHER ->
             <<PositionalToken(arg.s)>> \o argsToTokens(rest)

\* parseArgs: values[longOption] = optionValue ?? true, later tokens override.
RECURSIVE storeOptions(_, _)
storeOptions(toks, values) ==
    IF toks = <<>> THEN values
    ELSE LET t == Head(toks)
             v == IF t.value = Undefined THEN TrueVal ELSE t.value
         IN IF t.kind = "option"
            THEN storeOptions(Tail(toks),
                   [n \in DOMAIN values \cup {t.name} |->
                       IF n = t.name THEN v ELSE values[n]])
            ELSE storeOptions(Tail(toks), values)

RECURSIVE positionalsOf(_)
positionalsOf(toks) ==
    IF toks = <<>> THEN <<>>
    ELSE IF Head(toks).kind = "positional"
         THEN <<Head(toks).value>> \o positionalsOf(Tail(toks))
         ELSE positionalsOf(Tail(toks))

EmptyValues == [n \in {} |-> ""]

parseArgs(args) ==
    LET toks == argsToTokens(args)
    IN [values |-> storeOptions(toks, EmptyValues),
        positionals |-> positionalsOf(toks),
        tokens |-> toks]

\* values.<key>: a property that was never stored reads as undefined.
Get(values, key) == IF key \in DOMAIN values THEN values[key] ELSE Undefined


(***************************************************************************)
(* Operator input at a prompt: a string is a sequence of characters.       *)
(***************************************************************************)
Upper == <<"A", "H", "I", "N", "O", "P", "S", "T", "U", "W", "Y">>
Lower == <<"a", "h", "i", "n", "o", "p", "s", "t", "u", "w", "y">>

\* String.prototype.toLowerCase, one character.
toLowerChar(c) ==
    IF \E i \in DOMAIN Upper : Upper[i] = c
    THEN Lower[CHOOSE i \in DOMAIN Upper : Upper[i] = c]
    ELSE c

toLowerCase(str) == [i \in DOMAIN str |-> toLowerChar(str[i])]

RECURSIVE trimStart(_)
trimStart(str) ==
    IF str # <<>> /\ Head(str) = " " THEN trimStart(Tail(str)) ELSE str

RECURSIVE trimEnd(_)
trimEnd(str) ==
    IF str # <<>> /\ str[Len(str)] = " "
    THEN trimEnd(SubSeq(str, 1, Len(str) - 1))
    ELSE str

\* String.prototype.trim
trim(str) == trimEnd(trimStart(str))

\* ask(q): resolves with ans.trim().toLowerCase()
ask(typedAnswer) == toLowerCase(trim(typedAnswer))

\* confirm({message, expected}): ans === expected.toLowerCase()
confirm(typedAnswer, expected) == ask(typedAnswer) = toLowerCase(expected)

ExpectedYes == <<"y">>
ExpectedPhrase == <<"i", " ", "w", "a", "n", "t", " ", "t", "o", " ", "p", "u", "s", "h">>
PhraseAsPrompted == <<"I", " ", "W", "A", "N", "T", " ", "T", "O", " ", "P", "U", "S", "H">>
NotAsked == <<"<", ">">>

\* What the operator may type at a prompt.
TypedAnswers ==
    { <<"y">>, <<" ", "Y">>, <<"n">>, <<"y", "e", "s">>, PhraseAsPrompted, ExpectedPhrase }

(***************************************************************************)
(* sync.config.json                                                        *)
(***************************************************************************)
FileTargets == {"themes", "plugins", "muplugins", "languages", "uploads"}
\* Object.keys(map): the keys of the handler map in insertion order.
MapKeys == <<"themes", "plugins", "muplugins", "languages", "uploads", "database">>
KnownTargets == {MapKeys[i] : i \in DOMAIN MapKeys}

EnvRecord(domain, denied) == [domain |-> domain, denied |-> denied]

\* A domain string of the configuration, cut into the pieces that URL
\* parsing tells apart: a scheme ("https://"), a host name, a port (":8888"),
\* a trailing "/". NoDomain is an environment without the domain key.
NoDomain == <<>>
HttpSchemes == {"http://", "https://"}
\* host names that cannot be read as a URL scheme: a scheme starts with a letter
NumericHosts == {"127.0.0.1"}
IsPort(piece) == piece \in {":80", ":443", ":8888"}
DefaultPort(scheme) == IF scheme = "http://" THEN ":80" ELSE ":443"
LocalUrl == <<"http://", "dev.local">>
RemoteUrl(n) == <<"https://", n \o ".example.com", "/">>

\* normalizeDomain, lines 113-119: new URL(domain).host, and when the
\* constructor throws, the string without a leading http(s):// and without
\* one trailing slash. A string with no scheme but a name and a port
\* ("localhost:8888") parses with "localhost:" as its scheme and has the
\* empty host; a numeric address with a port does not parse.
normalizeDomain(domain) ==
    LET parses == \/ Len(domain) >= 2 /\ domain[1] \in HttpSchemes
                  \/ Len(domain) >= 2 /\ IsPort(domain[2])
                                       /\ domain[1] \notin NumericHosts
        host == IF domain[1] \notin HttpSchemes THEN <<>>
                ELSE IF Len(domain) >= 3 /\ IsPort(domain[3])
                                          /\ domain[3] # DefaultPort(domain[1])
                THEN <<domain[2], domain[3]>>
                ELSE <<domain[2]>>
        noScheme == IF domain # <<>> /\ domain[1] \in HttpSchemes
                    THEN Tail(domain) ELSE domain
        noSlash == IF noScheme # <<>> /\ noScheme[Len(noScheme)] = "/"
                   THEN SubSeq(noScheme, 1, Len(noScheme) - 1) ELSE noScheme
    IN IF parses THEN host ELSE noSlash

\* config.environments: environment name -> {domain, syncOptions}; denied holds
\* the <<target, direction>> pairs that syncOptions sets to false.
MakeConfig(names, noDomain, denied) ==
    [environments |->
        [n \in names |->
            EnvRecord(IF n \in noDomain THEN NoDomain
                      ELSE IF n = "local" THEN LocalUrl ELSE RemoteUrl(n),
                      IF n = "local" THEN {} ELSE denied)]]

Configs ==
    { MakeConfig({"local", "staging"}, {}, {}),
      MakeConfig({"local", "staging", "production"}, {}, {}),
      MakeConfig({"local"}, {}, {}),
      MakeConfig({"local", "staging"}, {"local"}, {}),
      MakeConfig({"local", "staging"}, {"staging"}, {}),
      MakeConfig({"local", "staging", "production"}, {"production"}, {}),
      MakeConfig({"local", "staging"}, {}, {<<"uploads", "pull">>, <<"database", "push">>}) }

\* Local wp-content directories present when the run starts.
LocalDirChoices == {FileTargets, FileTargets \ {"themes"}}

(***************************************************************************)
(* The explored command lines                                              *)
(***************************************************************************)
Cmds == {"push", "pull", "db:export"}
EnvWords == {"staging", "production"}
TargetWords == {"themes", "database"}
FlagEnvNames == {"staging"}

\* -e <name> and --env <name>
EnvFlagForms ==
    {<<>>, <<LongArg("env"), Word("staging")>>}
    \cup {<<ShortArg(<<"e">>), Word(n)>> : n \in FlagEnvNames}

\* the words after the command: an optional environment, then target names
PositionalLists ==
    {e \o t : e \in {<<>>} \cup {<<w>> : w \in EnvWords},
              t \in UNION {[1..n -> TargetWords] : n \in 0..MaxTargetWords}}

DryForms == {<<>>, <<ShortArg(<<"n">>)>>, <<LongArg("dry-run")>>}
SelectForms ==
    {<<>>, <<LongArg("all")>>, <<ShortArg(<<"t", "p", "u", "d">>)>>,
     <<ShortArg(<<"d", "u", "p", "t", "d">>)>>,
     <<ShortArg(<<"m">>), ShortArg(<<"d">>)>>}
FlagForms ==
    {s \o d : s \in SelectForms, d \in DryForms} \cup {<<LongArg("help")>>}

\* db:export -e <name> --replace=<name>, alone or with the dry-run flag; and
\* the same with --e=<name>, an option parseArgs does not know and, strict
\* being false, stores under the name e
ExportReplaceVectors ==
    { <<Word("db:export")>> \o e \o r \o d :
        e \in {<<ShortArg(<<"e">>), Word("staging")>>, <<LongValArg("e", "staging")>>},
        r \in {<<>>} \cup {<<LongValArg("replace", w)>> : w \in EnvWords},
        d \in DryForms }

\* a name that is no target, alone, before and after a known target
UnknownTargetVectors ==
    { <<Word(c), Word("staging")>> \o [i \in DOMAIN t |-> Word(t[i])] :
        c \in {"push", "pull"},
        t \in {<<"bogus">>, <<"bogus", "themes">>, <<"themes", "bogus">>} }

ArgVectors ==
    { <<Word(c)>> \o e \o [i \in DOMAIN p |-> Word(p[i])] \o f :
        c \in Cmds, e \in EnvFlagForms, p \in PositionalLists, f \in FlagForms }
    \cup ExportReplaceVectors \cup UnknownTargetVectors

(***************************************************************************)
(* Environment resolution                                                  *)
(***************************************************************************)
NoError == "none"
Returned(name) == [fatal |-> NoError, name |-> name]
Fatal(msg) == [fatal |-> msg, name |-> Undefined]

allEnvs(cfg) == DOMAIN cfg.environments
nonLocalEnvs(cfg) == allEnvs(cfg) \ {"local"}

\* resolveEnvironment(cliEnv, config, {requireExplicit})
resolveEnvironment(cliEnv, cfg, requireExplicit) ==
    IF Truthy(cliEnv)
    THEN IF cliEnv \notin allEnvs(cfg)
         THEN Fatal("UnknownEnvironment")
         ELSE Returned(cliEnv)
    ELSE IF requireExplicit
         THEN Fatal("EnvRequired")
         ELSE IF Cardinality(nonLocalEnvs(cfg)) = 1
              THEN Returned(CHOOSE e \in nonLocalEnvs(cfg) : TRUE)
              ELSE IF Cardinality(nonLocalEnvs(cfg)) = 0
                   THEN Fatal("NoRemoteEnvironments")
                   ELSE Fatal("AmbiguousEnvironment")


(***************************************************************************)
(* Target collection                                                       *)
(***************************************************************************)
\* targetAliases, in insertion order.
AliasShorts == <<"t", "p", "m", "l", "u", "d">>
targetAliases(ch) ==
    CASE ch = "t" -> "themes"
      [] ch = "p" -> "plugins"
      [] ch = "m" -> "muplugins"
      [] ch = "l" -> "languages"
      [] ch = "u" -> "uploads"
      [] ch = "d" -> "database"
      [] OTHER -> Undefined

\* Object.entries(targetAliases).forEach: push full for every values[short]
RECURSIVE flagTargets(_, _)
flagTargets(values, shorts) ==
    IF shorts = <<>> THEN <<>>
    ELSE (IF Truthy(Get(values, Head(shorts)))
          THEN <<targetAliases(Head(shorts))>> ELSE <<>>)
         \o flagTargets(values, Tail(shorts))

\* tokens.filter(kind === "option" && /^-[a-z]+$/i.test(rawName))
\*       .flatMap(rawName.slice(1).split("").map(ch => targetAliases[ch] || ch))
RECURSIVE expandedTargets(_)
expandedTargets(toks) ==
    IF toks = <<>> THEN <<>>
    ELSE (IF Head(toks).kind = "option" /\ Head(toks).dashes = 1
          THEN LET ch == Head(toks).rawName
               IN <<IF targetAliases(ch) # Undefined THEN targetAliases(ch) ELSE ch>>
          ELSE <<>>)
         \o expandedTargets(Tail(toks))

\* variant: repeated names are kept
dedupe_KeepAll(list) == list

\* Array.from(new Set(list)): first occurrences, in order.
RECURSIVE dedupe(_)
dedupe(list) ==
    IF list = <<>> THEN <<>>
    ELSE LET front == dedupe(SubSeq(list, 1, Len(list) - 1))
             last == list[Len(list)]
         IN IF \E i \in DOMAIN front : front[i] = last
            THEN front
            ELSE Append(front, last)

(***************************************************************************)
(* History of operations                                                   *)
(***************************************************************************)
\* args holds the arguments of the invocation that a claim is about: the
\* deletion flag of rsync, the two domains of wp search-replace.
EvArgs(ev, op, tgt, code, args) ==
    [ev |-> ev, op |-> op, tgt |-> tgt, code |-> code, args |-> args]
Ev(ev, op, tgt, code) == EvArgs(ev, op, tgt, code, <<>>)

Spawns(tr) == SelectSeq(tr, LAMBDA e : e.ev = "spawn")
NoSpawn == Spawns(trace) = <<>>

LocalBackupFile == "local/local-backup.sql"
BeforePullBackupFile == "local/local-backup-before-pull.sql"
RemoteBackupFile == "env/remote-backup.sql"
ExportFile == "export.sql"

\* Exit statuses a child process may close with; SpawnError stands for the
\* 'error' event of a process that could not be spawned.
SpawnError == -2
ExitStatuses == {0, 1}
RsyncStatuses == {0, 1, 23}
\* ssh, one side of every pipe, closes with 255 when the connection fails
PipeStatuses == {0, 1, 255}

(***************************************************************************)
(* Initial state                                                           *)
(***************************************************************************)
NoProc == [st |-> "none", code |-> 0]
NormIdle == urlString = <<>> /\ normalized = <<>>
\* the functions that are run on their own are not running
NoWrite == [over |-> FALSE, len |-> 0, removed |-> {}]
LogIdle ==
    /\ logExists = FALSE /\ logSize = 0 /\ archives = {} /\ now = 0
    /\ writes = 0 /\ lastWrite = NoWrite
NoProcess == [state |-> "none", code |-> 0, by |-> "none"]
DevIdle ==
    /\ isWpEnvStopped = FALSE /\ wpEnvStops = 0 /\ vite = NoProcess
    /\ sigints = 0 /\ timers = 0 /\ exitListeners = <<>> /\ dev = NoProcess
NotCalled == [pc |-> "none", next |-> 1, inFlight |-> {}, raceOn |-> {}, running |-> {},
              invoked |-> <<>>, order |-> <<>>]
LcIdle == items = 0 /\ maxConcurrency = 0 /\ lc = NotCalled
UnitsIdle == NormIdle /\ LogIdle /\ DevIdle /\ LcIdle

InitRestMain ==
    /\ exitCode = Running
    /\ dryRun = FALSE
    /\ useAll = FALSE
    /\ envName = Undefined
    /\ targets = <<>>
    /\ selected = <<>>
    /\ idx = 0
    /\ prodTyped = NotAsked
    /\ dbTyped = NotAsked
    /\ trace = <<>>
    /\ files = {}
    /\ destDb = "original"
    /\ fatalMsg = NoError
    /\ srcSt = NoProc
    /\ snkSt = NoProc
    /\ srcExited = FALSE
    /\ snkExited = FALSE
    /\ errorOccurred = FALSE
    /\ settled = "none"
    /\ settleCalls = 0

InitRest ==
    /\ cmd = Undefined
    /\ InitRestMain

Init ==
    /\ argv \in ArgVectors
    /\ config \in Configs
    /\ localDirs \in LocalDirChoices
    /\ caller = "main"
    /\ pc = "start"
    /\ InitRest
    /\ UnitsIdle

\* process.exit(code), or the process ending on an unhandled rejection
Exit(code, msg) ==
    /\ pc' = "exit"
    /\ exitCode' = code
    /\ fatalMsg' = msg


(***************************************************************************)
(* main(): parsing, environment, gates                                     *)
(***************************************************************************)
Alive == caller = "main" /\ exitCode = Running

\* main, lines 386-417: parseArgs, cmd, dryRun, useAll, help
ParseCommandLine ==
    /\ Alive /\ pc = "start"
    /\ LET p == parseArgs(argv)
           c == IF p.positionals = <<>> THEN Undefined ELSE p.positionals[1]
       IN /\ cmd' = c
          /\ dryRun' = Truthy(Get(p.values, "dryRun"))
          /\ useAll' = Truthy(Get(p.values, "all"))
          /\ IF ~Truthy(c) \/ Truthy(Get(p.values, "help"))
             THEN Exit(0, NoError)
             ELSE /\ pc' = CASE c \in {"push", "pull"} -> "resolve"
                             [] c = "db:export" -> "dbexport"
                             [] OTHER -> "exit"
                  /\ exitCode' = IF c \in {"push", "pull", "db:export"} THEN Running ELSE 0
                  /\ fatalMsg' = NoError
    /\ UNCHANGED <<inputVars, unitVars, envName, targets, selected, idx, promptVars, worldVars, pipeVars>>

\* main, lines 419-458: envName, positional environment, target collection
ResolveTargets ==
    /\ Alive /\ pc = "resolve"
    /\ LET p == parseArgs(argv)
           envName0 == Get(p.values, "e")
           targets0 == Tail(p.positionals)
           tryPositional == ~Truthy(envName0) /\ targets0 # <<>>
           r == IF tryPositional
                THEN resolveEnvironment(targets0[1], config, FALSE)
                ELSE Returned(Undefined)
           shifted == tryPositional /\ Truthy(r.name)
           envName1 == IF shifted THEN targets0[1] ELSE envName0
           targets1 == IF shifted THEN Tail(targets0) ELSE targets0
           targets2 == targets1 \o flagTargets(p.values, AliasShorts)
           targets3 == dedupe(targets2 \o expandedTargets(p.tokens))
       IN IF r.fatal # NoError
          THEN Exit(1, r.fatal) /\ UNCHANGED <<envName, targets>>
          ELSE /\ envName' = envName1
               /\ targets' = targets3
               /\ IF envName1 \notin allEnvs(config)
                  THEN Exit(1, "UnknownEnvironment")
                  ELSE pc' = "gate" /\ UNCHANGED <<exitCode, fatalMsg>>
    /\ UNCHANGED <<inputVars, unitVars, cmd, dryRun, useAll, selected, idx, promptVars, worldVars, pipeVars>>

NeedsProductionGate == cmd = "push" /\ envName = "production"

\* main, lines 460-464: the production confirmation
ProductionPrompt ==
    /\ Alive /\ pc = "gate" /\ NeedsProductionGate
    /\ \E typed \in TypedAnswers :
          /\ prodTyped' = typed
          /\ IF confirm(typed, ExpectedPhrase)
             THEN pc' = "domains" /\ UNCHANGED <<exitCode, fatalMsg>>
             ELSE Exit(0, NoError)
    /\ UNCHANGED <<inputVars, unitVars, mainVars, dbTyped, worldVars, pipeVars>>

NoProductionPrompt ==
    /\ Alive /\ pc = "gate" /\ ~NeedsProductionGate
    /\ pc' = "domains"
    /\ UNCHANGED <<inputVars, unitVars, exitCode, fatalMsg, mainVars, promptVars, worldVars, pipeVars>>

env == config.environments[envName]

\* variant: only the local domain is required
domainError_LocalOnly(cfg, name) ==
    IF "local" \notin allEnvs(cfg) \/ cfg.environments["local"].domain = NoDomain
    THEN "LocalDomainMissing"
    ELSE NoError

\* main, lines 466-473: the two domain checks, each one fatal
domainError(cfg, name) ==
    IF "local" \notin allEnvs(cfg) \/ cfg.environments["local"].domain = NoDomain
    THEN "LocalDomainMissing"
    ELSE IF cfg.environments[name].domain = NoDomain
    THEN "DomainMissing"
    ELSE NoError

\* main, lines 475-476
localDomain == normalizeDomain(config.environments["local"].domain)
remoteDomain == normalizeDomain(env.domain)

\* main, lines 466-501: domains, handler map, selectedTargets
CheckDomains ==
    /\ Alive /\ pc = "domains"
    /\ LET err == domainError(config, envName)
       IN IF err # NoError
          THEN Exit(1, err) /\ UNCHANGED <<selected, idx>>
          ELSE IF targets = <<>> /\ ~useAll
          THEN Exit(1, "NoTargets") /\ UNCHANGED <<selected, idx>>
          ELSE /\ selected' = IF useAll THEN MapKeys ELSE targets
               /\ idx' = 1
               /\ pc' = "loop"
               /\ UNCHANGED <<exitCode, fatalMsg>>
    /\ UNCHANGED <<inputVars, unitVars, cmd, dryRun, useAll, envName, targets, promptVars, worldVars, pipeVars>>

(***************************************************************************)
(* main(): the dispatch loop                                               *)
(***************************************************************************)
InLoop == Alive /\ pc = "loop" /\ idx <= Len(selected)
current == selected[idx]
\* variant: the syncOptions of the environment are not consulted
allowed_Always(t) == TRUE

\* main, lines 508-509: env.syncOptions?.[t]?.[cmd] is not false
allowed(t) == <<t, cmd>> \notin env.denied

\* the for..of loop is exhausted and main() returns
LoopDone ==
    /\ Alive /\ pc = "loop" /\ idx > Len(selected)
    /\ Exit(0, NoError)
    /\ UNCHANGED <<inputVars, unitVars, mainVars, promptVars, worldVars, pipeVars>>

\* main, lines 504-507
SkipUnknown ==
    /\ InLoop /\ current \notin KnownTargets
    /\ trace' = Append(trace, Ev("warn", "unknownTarget", current, 0))
    /\ idx' = idx + 1
    /\ UNCHANGED <<inputVars, unitVars, localDirs, pc, exitCode, fatalMsg, cmd, dryRun, useAll, envName,
                   targets, selected, promptVars, files, destDb, pipeVars>>

\* main, lines 508-512
SkipDisallowed ==
    /\ InLoop /\ current \in KnownTargets /\ ~allowed(current)
    /\ trace' = Append(trace, Ev("skip", "disallowed", current, 0))
    /\ idx' = idx + 1
    /\ UNCHANGED <<inputVars, unitVars, localDirs, pc, exitCode, fatalMsg, cmd, dryRun, useAll, envName,
                   targets, selected, promptVars, files, destDb, pipeVars>>

\* deleteMode argument the handler map passes to syncFiles, lines 479-494
deleteMode(t) == t = "muplugins"

\* syncFiles, lines 160-161: the options of rsync that depend on the call
rsyncArgs(t, dry) ==
    (IF dry THEN <<"--dry-run">> ELSE <<>>)
    \o (IF deleteMode(t) THEN <<"--delete-before">> ELSE <<>>)

\* variant: exit status 23 is forgiven for every file target
tolerated_AnyTarget(t, code) == code = 23

\* the .catch of the muplugins handler, lines 484-490: the only handler
\* with one, and it swallows only "rsync exited with 23"
tolerated(t, code) == t = "muplugins" /\ code = 23

\* syncFiles, lines 149-177, up to the spawn inside runAsync (lines 89-96);
\* in dry-run runAsync resolves at once and syncFiles logs completion.
SyncFiles ==
    /\ InLoop /\ current \in FileTargets /\ allowed(current)
    /\ IF cmd = "push" /\ current \notin localDirs
       THEN /\ Exit(1, "LocalPathMissing")
            /\ UNCHANGED <<trace, idx, localDirs>>
       ELSE /\ localDirs' = localDirs \cup {current}
            /\ IF dryRun
               THEN /\ trace' = trace \o <<EvArgs("dry", "rsync", current, 0,
                                               rsyncArgs(current, dryRun)),
                                           Ev("log", "fileSync", current, 0)>>
                    /\ idx' = idx + 1
                    /\ UNCHANGED <<pc, exitCode, fatalMsg>>
               ELSE /\ trace' = Append(trace, EvArgs("spawn", "rsync", current, 0,
                                                      rsyncArgs(current, dryRun)))
                    /\ pc' = "rsync"
                    /\ UNCHANGED <<idx, exitCode, fatalMsg>>
    /\ UNCHANGED <<inputVars, unitVars, cmd, dryRun, useAll, envName, targets, selected,
                   promptVars, files, destDb, pipeVars>>

\* runAsync, lines 97-100, then syncFiles line 178 and the mu-plugins
\* catch of the handler map (lines 484-490)
RsyncExit ==
    /\ Alive /\ pc = "rsync"
    /\ \E code \in RsyncStatuses \cup {SpawnError} :
          IF code = 0
          THEN /\ trace' = trace \o <<Ev("close", "rsync", current, code),
                                      Ev("log", "fileSync", current, 0)>>
               /\ idx' = idx + 1
               /\ pc' = "loop"
               /\ UNCHANGED <<exitCode, fatalMsg>>
          ELSE IF tolerated(current, code)
          THEN /\ trace' = trace \o <<Ev("close", "rsync", current, code),
                                      Ev("warn", "skipMuPlugins", current, 0)>>
               /\ idx' = idx + 1
               /\ pc' = "loop"
               /\ UNCHANGED <<exitCode, fatalMsg>>
          ELSE /\ trace' = Append(trace, Ev(IF code = SpawnError THEN "error" ELSE "close",
                                            "rsync", current, code))
               /\ Exit(1, "SubprocessFailed")
               /\ UNCHANGED idx
    /\ UNCHANGED <<inputVars, unitVars, localDirs, cmd, dryRun, useAll, envName, targets, selected,
                   promptVars, files, destDb, pipeVars>>


(***************************************************************************)
(* syncDatabase                                                            *)
(***************************************************************************)
\* variant: the import pipe is started before the local backup export
databaseSteps_PipeFirst(direction, dry) ==
    IF dry
    THEN (IF direction = "push" THEN <<"exportLocal">> ELSE <<"exportLocal", "exportRemote">>)
    ELSE (IF direction = "push"
          THEN <<"pipe", "exportLocal", "searchReplace">>
          ELSE <<"pipe", "exportLocal", "exportRemote", "searchReplace">>)

\* variant: the search-replace after the import is left out
databaseSteps_NoRewrite(direction, dry) ==
    (IF direction = "push"
     THEN <<"exportLocal">>
     ELSE <<"exportLocal", "exportRemote">>)
    \o (IF dry THEN <<>> ELSE <<"pipe">>)

\* syncDatabase, lines 308-354: the steps of one database sync after the
\* confirmation, in order; a dry run returns before the import pipe.
databaseSteps(direction, dry) ==
    (IF direction = "push"
     THEN <<"exportLocal">>
     ELSE <<"exportLocal", "exportRemote">>)
    \o (IF dry THEN <<>> ELSE <<"pipe", "searchReplace">>)

\* the step that follows `step`, "return" when syncDatabase returns
afterStep(direction, dry, step) ==
    LET plan == databaseSteps(direction, dry)
        i == CHOOSE j \in DOMAIN plan : plan[j] = step
    IN IF i < Len(plan) THEN plan[i + 1] ELSE "return"

\* Control after a step of the database pipeline has succeeded: the next
\* step, or the completion log and the next target; for db:export, the
\* completion log and the end of main().
Advance(step, tr) ==
    IF cmd = "db:export"
    THEN /\ trace' = Append(tr, Ev("log", "exportComplete", ExportFile, 0))
         /\ Exit(0, NoError)
         /\ UNCHANGED idx
    ELSE LET nxt == afterStep(cmd, dryRun, step)
         IN IF nxt = "return"
            THEN /\ trace' = IF dryRun THEN tr
                             ELSE Append(tr, Ev("log", "dbSync", "database", 0))
                 /\ idx' = idx + 1
                 /\ pc' = "loop"
                 /\ UNCHANGED <<exitCode, fatalMsg>>
            ELSE /\ trace' = tr
                 /\ pc' = nxt
                 /\ UNCHANGED <<idx, exitCode, fatalMsg>>

\* syncDatabase, lines 291-306: timestamp, backup directories, wp options
SyncDatabase ==
    /\ InLoop /\ current = "database" /\ allowed(current)
    /\ trace' = trace \o <<Ev("mkdir", "backupDir", "local", 0),
                           Ev("mkdir", "backupDir", envName, 0)>>
    /\ pc' = "dbConfirm"
    /\ UNCHANGED <<inputVars, unitVars, localDirs, exitCode, fatalMsg, mainVars, promptVars, files, destDb, pipeVars>>

\* syncDatabase, lines 309-310 and 331-332: the overwrite confirmation
DbConfirm ==
    /\ Alive /\ pc = "dbConfirm"
    /\ \E typed \in TypedAnswers :
          /\ dbTyped' = typed
          /\ IF confirm(typed, ExpectedYes)
             THEN pc' = databaseSteps(cmd, dryRun)[1] /\ UNCHANGED <<exitCode, fatalMsg>>
             ELSE Exit(0, NoError)
    /\ UNCHANGED <<inputVars, unitVars, mainVars, prodTyped, worldVars, pipeVars>>

localBackupPath == IF cmd = "push" THEN LocalBackupFile ELSE BeforePullBackupFile

\* exportLocalDB, lines 228-238: dry-run log, or spawn and createWriteStream
ExportLocalDB ==
    /\ Alive /\ pc = "exportLocal"
    /\ IF dryRun
       THEN /\ Advance("exportLocal", Append(trace, Ev("dry", "exportLocal", localBackupPath, 0)))
            /\ UNCHANGED files
       ELSE /\ trace' = Append(trace, Ev("spawn", "exportLocal", localBackupPath, 0))
            /\ files' = files \cup {localBackupPath}
            /\ pc' = "exportLocalWait"
            /\ UNCHANGED <<idx, exitCode, fatalMsg>>
    /\ UNCHANGED <<inputVars, unitVars, localDirs, cmd, dryRun, useAll, envName, targets, selected,
                   promptVars, destDb, pipeVars>>

\* exportLocalDB, lines 239-244: close and error of the export process
ExportLocalExit ==
    /\ Alive /\ pc = "exportLocalWait"
    /\ \E code \in ExitStatuses \cup {SpawnError} :
          LET tr == Append(trace, Ev(IF code = SpawnError THEN "error" ELSE "close",
                                     "exportLocal", localBackupPath, code))
          IN IF code = 0
             THEN Advance("exportLocal", tr)
             ELSE /\ trace' = tr
                  /\ Exit(1, "LocalExportFailed")
                  /\ UNCHANGED idx
    /\ UNCHANGED <<inputVars, unitVars, localDirs, cmd, dryRun, useAll, envName, targets, selected,
                   promptVars, files, destDb, pipeVars>>

remoteDumpPath == IF cmd = "db:export" THEN ExportFile ELSE RemoteBackupFile

\* main, line 549, and exportRemoteDB, lines 255-257: with --replace the
\* remote command is a search-replace --export from the normalized domain of
\* the environment to the domain of the --replace environment as configured
\* main, line 549: the replaceDomain argument of exportRemoteDB, NoDomain
\* (falsy) when there is no --replace or its environment has no domain
replaceDomain ==
    LET r == Get(parseArgs(argv).values, "replace")
    IN IF cmd = "db:export" /\ r \notin {Undefined, TrueVal}
       THEN config.environments[r].domain
       ELSE NoDomain

exportReplaceArgs ==
    IF replaceDomain # NoDomain
    THEN <<normalizeDomain(env.domain), replaceDomain>>
    ELSE <<>>

\* exportRemoteDB, lines 247-265
ExportRemoteDB ==
    /\ Alive /\ pc = "exportRemote"
    /\ IF dryRun
       THEN /\ Advance("exportRemote", Append(trace, Ev("dry", "exportRemote", remoteDumpPath, 0)))
            /\ UNCHANGED files
       ELSE IF replaceDomain # NoDomain /\ env.domain = NoDomain
       THEN \* normalizeDomain(undefined) throws inside the promise: line 270
            /\ Exit(1, "RemoteExportFailed")
            /\ UNCHANGED <<trace, files, idx>>
       ELSE /\ trace' = Append(trace, EvArgs("spawn", "exportRemote", remoteDumpPath, 0,
                                              exportReplaceArgs))
            /\ files' = files \cup {remoteDumpPath}
            /\ pc' = "exportRemoteWait"
            /\ UNCHANGED <<idx, exitCode, fatalMsg>>
    /\ UNCHANGED <<inputVars, unitVars, localDirs, cmd, dryRun, useAll, envName, targets, selected,
                   promptVars, destDb, pipeVars>>

\* exportRemoteDB, lines 266-271
ExportRemoteExit ==
    /\ Alive /\ pc = "exportRemoteWait"
    /\ \E code \in ExitStatuses \cup {SpawnError} :
          LET tr == Append(trace, Ev(IF code = SpawnError THEN "error" ELSE "close",
                                     "exportRemote", remoteDumpPath, code))
          IN IF code = 0
             THEN Advance("exportRemote", tr)
             ELSE /\ trace' = tr
                  /\ Exit(1, "RemoteExportFailed")
                  /\ UNCHANGED idx
    /\ UNCHANGED <<inputVars, unitVars, localDirs, cmd, dryRun, useAll, envName, targets, selected,
                   promptVars, files, destDb, pipeVars>>

\* variant: the two domains are passed the other way round
searchReplaceArgs_Swapped(direction, localDom, remoteDom) ==
    IF direction = "push" THEN <<remoteDom, localDom>> ELSE <<localDom, remoteDom>>

\* syncDatabase, lines 327 and 351: fromDomain and toDomain of runSearchReplace
searchReplaceArgs(direction, localDom, remoteDom) ==
    IF direction = "push" THEN <<localDom, remoteDom>> ELSE <<remoteDom, localDom>>

\* runSearchReplace, lines 274-287: dry-run log, or spawn through runAsync
RunSearchReplace ==
    /\ Alive /\ pc = "searchReplace"
    /\ LET side == IF cmd = "push" THEN "remote" ELSE "local"
           args == searchReplaceArgs(cmd, localDomain, remoteDomain)
       IN IF dryRun
          THEN Advance("searchReplace",
                       Append(trace, EvArgs("dry", "searchReplace", side, 0, args)))
          ELSE /\ trace' = Append(trace, EvArgs("spawn", "searchReplace", side, 0, args))
               /\ pc' = "searchReplaceWait"
               /\ UNCHANGED <<idx, exitCode, fatalMsg>>
    /\ UNCHANGED <<inputVars, unitVars, localDirs, cmd, dryRun, useAll, envName, targets, selected,
                   promptVars, files, destDb, pipeVars>>

\* runAsync, lines 97-100, for the search-replace process
SearchReplaceExit ==
    /\ Alive /\ pc = "searchReplaceWait"
    /\ \E code \in ExitStatuses \cup {SpawnError} :
          LET side == IF cmd = "push" THEN "remote" ELSE "local"
              tr == Append(trace, Ev(IF code = SpawnError THEN "error" ELSE "close",
                                     "searchReplace", side, code))
          IN IF code = 0
             THEN /\ Advance("searchReplace", tr)
                  /\ destDb' = "rewritten"
             ELSE /\ trace' = tr
                  /\ Exit(1, "SubprocessFailed")
                  /\ UNCHANGED <<idx, destDb>>
    /\ UNCHANGED <<inputVars, unitVars, localDirs, cmd, dryRun, useAll, envName, targets, selected,
                   promptVars, files, pipeVars>>


(***************************************************************************)
(* pipeProcesses                                                           *)
(***************************************************************************)
\* resolve() or reject() of the promise: only the first call settles it
SettleTo(kind) ==
    /\ settleCalls' = settleCalls + 1
    /\ settled' = IF settled = "pending" THEN kind ELSE settled

\* variant: checkExit does not look at errorOccurred
checkExit_NoErrorGuard(srcEx, snkEx, err) == srcEx /\ snkEx

\* checkExit, lines 198-200: whether it calls resolve()
checkExit(srcEx, snkEx, err) == srcEx /\ snkEx /\ ~err

\* pipeProcesses, lines 188-196: both processes are spawned (callers never
\* pass dryRun, so it has its default false)
PipeStart ==
    /\ pc = "pipe"
    /\ caller = "harness" \/ Alive
    /\ trace' = trace \o <<Ev("spawn", "pipeSrc", cmd, 0), Ev("spawn", "pipeSnk", cmd, 0)>>
    /\ srcSt' = [st |-> "running", code |-> 0]
    /\ snkSt' = [st |-> "running", code |-> 0]
    /\ srcExited' = FALSE
    /\ snkExited' = FALSE
    /\ errorOccurred' = FALSE
    /\ settled' = "pending"
    /\ settleCalls' = 0
    /\ pc' = "pipeWait"
    /\ UNCHANGED <<inputVars, unitVars, localDirs, exitCode, fatalMsg, mainVars, promptVars, files, destDb>>

\* Events are delivered while the promise is pending; once it settles the
\* awaiting caller runs first (in main this ends the process on rejection).
PipeListening ==
    /\ pc = "pipeWait"
    /\ caller = "harness" \/ (Alive /\ settled = "pending")

\* a child closes: with an exit status when it ran, with the spawn error
\* number after its 'error' event
closeCodes(proc) ==
    CASE proc.st = "running" -> PipeStatuses
      [] proc.st = "errored" -> {SpawnError}
      [] OTHER -> {}

\* src.on("close"), lines 202-212
PipeSrcClose ==
    /\ PipeListening
    /\ \E code \in closeCodes(srcSt) :
          /\ srcSt' = [st |-> "closed", code |-> code]
          /\ trace' = Append(trace, Ev("close", "pipeSrc", cmd, code))
          /\ srcExited' = TRUE
          /\ IF code # 0 /\ ~errorOccurred
             THEN errorOccurred' = TRUE /\ SettleTo("rejected")
             ELSE /\ UNCHANGED errorOccurred
                  /\ IF checkExit(TRUE, snkExited, errorOccurred)
                     THEN SettleTo("resolved")
                     ELSE UNCHANGED <<settled, settleCalls>>
    /\ UNCHANGED <<inputVars, unitVars, localDirs, pc, exitCode, fatalMsg, mainVars, promptVars, files, destDb,
                   snkSt, snkExited>>

\* snk.on("close"), lines 214-221; a sink that closes with status 0 has
\* imported the stream it was fed
PipeSnkClose ==
    /\ PipeListening
    /\ \E code \in closeCodes(snkSt) :
          /\ snkSt' = [st |-> "closed", code |-> code]
          /\ trace' = Append(trace, Ev("close", "pipeSnk", cmd, code))
          /\ destDb' = IF code = 0 THEN "unrewritten" ELSE destDb
          /\ snkExited' = TRUE
          /\ IF code # 0 /\ ~errorOccurred
             THEN errorOccurred' = TRUE /\ SettleTo("rejected")
             ELSE /\ UNCHANGED errorOccurred
                  /\ IF checkExit(srcExited, TRUE, errorOccurred)
                     THEN SettleTo("resolved")
                     ELSE UNCHANGED <<settled, settleCalls>>
    /\ UNCHANGED <<inputVars, unitVars, localDirs, pc, exitCode, fatalMsg, mainVars, promptVars, files,
                   srcSt, srcExited>>

\* src.on("error"), line 223
PipeSrcError ==
    /\ PipeListening
    /\ srcSt.st = "running"
    /\ srcSt' = [st |-> "errored", code |-> SpawnError]
    /\ trace' = Append(trace, Ev("error", "pipeSrc", cmd, SpawnError))
    /\ IF ~errorOccurred
       THEN errorOccurred' = TRUE /\ SettleTo("rejected")
       ELSE UNCHANGED <<errorOccurred, settled, settleCalls>>
    /\ UNCHANGED <<inputVars, unitVars, localDirs, pc, exitCode, fatalMsg, mainVars, promptVars, files, destDb,
                   snkSt, srcExited, snkExited>>

\* snk.on("error"), line 224
PipeSnkError ==
    /\ PipeListening
    /\ snkSt.st = "running"
    /\ snkSt' = [st |-> "errored", code |-> SpawnError]
    /\ trace' = Append(trace, Ev("error", "pipeSnk", cmd, SpawnError))
    /\ IF ~errorOccurred
       THEN errorOccurred' = TRUE /\ SettleTo("rejected")
       ELSE UNCHANGED <<errorOccurred, settled, settleCalls>>
    /\ UNCHANGED <<inputVars, unitVars, localDirs, pc, exitCode, fatalMsg, mainVars, promptVars, files, destDb,
                   srcSt, srcExited, snkExited>>

\* variant: the rejection of the pipe is swallowed and the pipeline goes on
PipeAwait_IgnoreRejection ==
    /\ Alive /\ pc = "pipeWait" /\ settled \in {"resolved", "rejected"}
    /\ Advance("pipe", trace)
    /\ UNCHANGED <<inputVars, unitVars, localDirs, cmd, dryRun, useAll, envName, targets, selected,
                   promptVars, files, destDb, pipeVars>>

\* syncDatabase, lines 319-326 and 347-350: `await pipeProcesses(...)` resumes;
\* a rejection is not caught anywhere and ends the process with code 1
PipeAwait ==
    /\ Alive /\ pc = "pipeWait" /\ settled \in {"resolved", "rejected"}
    /\ IF settled = "resolved"
       THEN Advance("pipe", trace)
       ELSE /\ Exit(1, "SubprocessFailed")
            /\ UNCHANGED <<trace, idx>>
    /\ UNCHANGED <<inputVars, unitVars, localDirs, cmd, dryRun, useAll, envName, targets, selected,
                   promptVars, files, destDb, pipeVars>>

(***************************************************************************)
(* db:export                                                               *)
(***************************************************************************)
\* main, lines 517-552, up to the call of exportRemoteDB
DbExport ==
    /\ Alive /\ pc = "dbexport"
    /\ LET p == parseArgs(argv)
           e == Get(p.values, "e")
           replace == Get(p.values, "replace")
       IN /\ envName' = e
          /\ IF ~Truthy(e)
             THEN Exit(1, "EnvRequired") /\ UNCHANGED trace
             ELSE IF e \notin allEnvs(config)
             THEN Exit(1, "UnknownEnvironment") /\ UNCHANGED trace
             ELSE IF replace = TrueVal
             THEN Exit(1, "ReplaceRequiresName") /\ UNCHANGED trace
             ELSE IF replace # Undefined /\ replace \notin allEnvs(config)
             THEN /\ Exit(1, "UnknownEnvironment")
                  /\ trace' = Append(trace, Ev("mkdir", "backupDir", "exports", 0))
             ELSE /\ trace' = Append(trace, Ev("mkdir", "backupDir",
                                               IF replace # Undefined THEN "exports" ELSE e, 0))
                  /\ pc' = "exportRemote"
                  /\ UNCHANGED <<exitCode, fatalMsg>>
    /\ UNCHANGED <<inputVars, unitVars, localDirs, cmd, dryRun, useAll, targets, selected, idx,
                   promptVars, files, destDb, pipeVars>>

(***************************************************************************)
(* Specifications                                                          *)
(***************************************************************************)
PipeNext ==
    \/ PipeStart
    \/ PipeSrcClose
    \/ PipeSnkClose
    \/ PipeSrcError
    \/ PipeSnkError

Next ==
    \/ ParseCommandLine
    \/ ResolveTargets
    \/ ProductionPrompt
    \/ NoProductionPrompt
    \/ CheckDomains
    \/ LoopDone
    \/ SkipUnknown
    \/ SkipDisallowed
    \/ SyncFiles
    \/ RsyncExit
    \/ SyncDatabase
    \/ DbConfirm
    \/ ExportLocalDB
    \/ ExportLocalExit
    \/ ExportRemoteDB
    \/ ExportRemoteExit
    \/ PipeStart
    \/ PipeSrcClose
    \/ PipeSnkClose
    \/ PipeSrcError
    \/ PipeSnkError
    \/ PipeAwait
    \/ RunSearchReplace
    \/ SearchReplaceExit
    \/ DbExport

Spec == Init /\ [][Next]_vars

\* pipeProcesses called on its own, by a caller that outlives the promise
InitPipe ==
    /\ argv = <<>>
    /\ config \in {MakeConfig({"local", "staging"}, {}, {})}
    /\ localDirs = FileTargets
    /\ caller = "harness"
    /\ pc = "pipe"
    /\ cmd \in {"push", "pull"}
    /\ InitRestMain
    /\ UnitsIdle

SpecPipe == InitPipe /\ [][PipeNext]_vars

(***************************************************************************)
(* normalizeDomain on its own                                              *)
(***************************************************************************)
UrlHosts == {"dev.local", "localhost", "staging.example.com", "127.0.0.1"}
\* URLs and bare hosts: an optional scheme, a host, an optional port, an
\* optional trailing slash
UrlInputs ==
    { s \o <<h>> \o p \o t :
        s \in {<<>>, <<"http://">>, <<"https://">>},
        h \in UrlHosts,
        p \in {<<>>, <<":80">>, <<":443">>, <<":8888">>},
        t \in {<<>>, <<"/">>} }

InitNormalize ==
    /\ urlString \in UrlInputs
    /\ normalized = <<>>
    /\ argv = <<>>
    /\ config \in {MakeConfig({"local"}, {}, {})}
    /\ localDirs = FileTargets
    /\ caller = "normalizeDomain"
    /\ pc = "none"
    /\ InitRest
    /\ LogIdle
    /\ DevIdle
    /\ LcIdle

\* normalizeDomain(urlString), then normalizeDomain of that result
ApplyNormalize ==
    /\ caller = "normalizeDomain"
    /\ Len(normalized) < 2
    /\ normalized' = Append(normalized,
                            normalizeDomain(IF normalized = <<>> THEN urlString
                                            ELSE normalized[Len(normalized)]))
    /\ UNCHANGED <<inputVars, logVars, devVars, lcVars, urlString, localDirs, pc, exitCode, fatalMsg,
                   mainVars, promptVars, trace, files, destDb, pipeVars>>

SpecNormalize == InitNormalize /\ [][ApplyNormalize]_vars

(***************************************************************************)
(* log() and its rotation, on its own                                      *)
(***************************************************************************)
MAX_LOG_SIZE == 10485760
MAX_LOG_FILES == 10
MaxWrites == 4
\* Date.now() when the first explored call is made; like the clock of this
\* century it keeps its number of digits over the explored calls
FirstNow == 30

\* String(n): the decimal digits of a positive number
RECURSIVE Digits(_)
Digits(n) == IF n < 10 THEN <<n>> ELSE Append(Digits(n \div 10), n % 10)

\* a < b for strings of digits, as Array.prototype.sort() compares strings
RECURSIVE LexLess(_, _)
LexLess(a, b) ==
    IF b = <<>> THEN FALSE
    ELSE IF a = <<>> THEN TRUE
    ELSE IF Head(a) # Head(b) THEN Head(a) < Head(b)
    ELSE LexLess(Tail(a), Tail(b))

\* readdirSync(dir).filter(...).sort(), line 46-48: the suffixes in the order
\* of their file names
RECURSIVE sortedNames(_)
sortedNames(stamps) ==
    IF stamps = {} THEN <<>>
    ELSE LET first == CHOOSE x \in stamps :
                        \A y \in stamps \ {x} : LexLess(Digits(x), Digits(y))
         IN <<first>> \o sortedNames(stamps \ {first})

\* variant: the slice keeps the head of the list and drops the tail
excess_Newest(sorted) ==
    IF Len(sorted) > MAX_LOG_FILES
    THEN SubSeq(sorted, MAX_LOG_FILES + 1, Len(sorted))
    ELSE <<>>

\* lines 50-51: files.slice(0, files.length - MAX_LOG_FILES) when there are
\* more than MAX_LOG_FILES
excess(sorted) ==
    IF Len(sorted) > MAX_LOG_FILES
    THEN SubSeq(sorted, 1, Len(sorted) - MAX_LOG_FILES)
    ELSE <<>>

\* message lengths: a line, and a message larger than the ceiling
MessageLengths == {40, MAX_LOG_SIZE + 1}
\* archives found when the first explored call is made: none, nine, ten, and
\* twelve (every file whose name starts with <log>. counts as an archive)
InitialArchives == {{}, 11..19, 11..20, 11..22}

InitLog ==
    /\ logExists \in BOOLEAN
    /\ logSize \in IF logExists THEN {MAX_LOG_SIZE, MAX_LOG_SIZE + 1} ELSE {0}
    /\ archives \in InitialArchives
    /\ now = FirstNow
    /\ writes = 0
    /\ lastWrite = NoWrite
    /\ NormIdle
    /\ DevIdle
    /\ LcIdle
    /\ argv = <<>>
    /\ config \in {MakeConfig({"local"}, {}, {})}
    /\ localDirs = FileTargets
    /\ caller = "log"
    /\ pc = "none"
    /\ InitRest

\* log(message), lines 31-60, every file operation succeeding; the clock
\* has moved on by `tick` since the call before
LogWrite ==
    /\ caller = "log"
    /\ writes < MaxWrites
    /\ \E len \in MessageLengths, tick \in {0, 1} :
          LET over == logExists /\ logSize > MAX_LOG_SIZE
              renamed == IF over THEN archives \cup {now + tick} ELSE archives
              sorted == sortedNames(renamed)
              gone == {excess(sorted)[k] : k \in DOMAIN excess(sorted)}
          IN /\ now' = now + tick
             /\ logExists' = TRUE
             /\ logSize' = IF over \/ ~logExists THEN len ELSE logSize + len
             /\ archives' = renamed \ gone
             /\ lastWrite' = [over |-> over, len |-> len, removed |-> gone]
    /\ writes' = writes + 1
    /\ UNCHANGED <<inputVars, normVars, devVars, lcVars, localDirs, pc, exitCode, fatalMsg,
                   mainVars, promptVars, trace, files, destDb, pipeVars>>

SpecLog == InitLog /\ [][LogWrite]_vars

(***************************************************************************)
(* The start-dev script, from the moment its handlers are registered       *)
(***************************************************************************)
MaxSigints == 3
\* how the child ends: with a status, or by a signal (its code is then null)
ViteEndings == {[code |-> 0, by |-> "itself"], [code |-> 1, by |-> "itself"],
                [code |-> 0, by |-> "SIGINT"]}

\* variant: the guard of the flag is inverted
stopWpEnv_Inverted(stopped, stops) ==
    IF ~stopped
    THEN [isWpEnvStopped |-> stopped, wpEnvStops |-> stops]
    ELSE [isWpEnvStopped |-> TRUE, wpEnvStops |-> stops + 1]

\* stopWpEnv(), lines 32-45: returns at once when the flag is set; otherwise
\* sets it and runs `wp-env stop` synchronously, any error caught
stopWpEnv(stopped, stops) ==
    IF stopped
    THEN [isWpEnvStopped |-> stopped, wpEnvStops |-> stops]
    ELSE [isWpEnvStopped |-> TRUE, wpEnvStops |-> stops + 1]

\* code || 0, line 71; code is null when a signal ended the child
exitStatus(child) == IF child.by # "itself" \/ child.code = 0 THEN 0 ELSE child.code

\* lines 26, 63, 68, 75, 92: wp-env is started, the child is spawned, one
\* 'exit' listener and the two process handlers are registered
InitDev ==
    /\ isWpEnvStopped = FALSE
    /\ wpEnvStops = 0
    /\ vite = [state |-> "running", code |-> 0, by |-> "none"]
    /\ sigints = 0
    /\ timers = 0
    /\ exitListeners = <<"main">>
    /\ dev = [state |-> "running", code |-> 0, by |-> "none"]
    /\ NormIdle
    /\ LogIdle
    /\ LcIdle
    /\ argv = <<>>
    /\ config \in {MakeConfig({"local"}, {}, {})}
    /\ localDirs = FileTargets
    /\ caller = "start-dev"
    /\ pc = "none"
    /\ InitRest

DevAlive == caller = "start-dev" /\ dev.state = "running"
DevRest == <<inputVars, normVars, logVars, lcVars, localDirs, pc, exitCode, fatalMsg, mainVars,
             promptVars, trace, files, destDb, pipeVars>>

\* the child ends: by itself, or because of a signal sent to it
ViteExits ==
    /\ DevAlive
    /\ vite.state = "running"
    /\ \E e \in ViteEndings :
          /\ vite' = [state |-> "exited", code |-> e.code, by |-> e.by]
    /\ UNCHANGED <<isWpEnvStopped, wpEnvStops, sigints, timers, exitListeners, dev, DevRest>>

\* the 'exit' event of the child is emitted: the listeners run in the order
\* of their registration; the first is the one of line 68, and its
\* process.exit ends the script before any listener added by SIGINT runs
ViteExitEvent ==
    /\ DevAlive
    /\ vite.state = "exited"
    /\ Head(exitListeners) = "main"
    /\ LET r == stopWpEnv(isWpEnvStopped, wpEnvStops)
       IN /\ isWpEnvStopped' = r.isWpEnvStopped
          /\ wpEnvStops' = r.wpEnvStops
    /\ dev' = [state |-> "exited", code |-> exitStatus(vite), by |-> "viteExit"]
    /\ vite' = [vite EXCEPT !.state = "reaped"]
    /\ UNCHANGED <<sigints, timers, exitListeners, DevRest>>

\* the SIGINT handler, lines 75-89: signals the child, arms a timer and
\* adds one more 'exit' listener
DevSigint ==
    /\ DevAlive
    /\ sigints < MaxSigints
    /\ sigints' = sigints + 1
    /\ timers' = timers + 1
    /\ exitListeners' = Append(exitListeners, "sigint")
    /\ UNCHANGED <<isWpEnvStopped, wpEnvStops, vite, dev, DevRest>>

\* a force-kill timer expires, lines 79-82: SIGKILL ends a child that is
\* still running
TimerFires ==
    /\ DevAlive
    /\ timers > 0
    /\ timers' = timers - 1
    /\ vite' = IF vite.state = "running"
               THEN [state |-> "exited", code |-> 0, by |-> "SIGKILL"]
               ELSE vite
    /\ UNCHANGED <<isWpEnvStopped, wpEnvStops, sigints, exitListeners, dev, DevRest>>

\* the uncaughtException handler, lines 92-96
UncaughtException ==
    /\ DevAlive
    /\ LET r == stopWpEnv(isWpEnvStopped, wpEnvStops)
       IN /\ isWpEnvStopped' = r.isWpEnvStopped
          /\ wpEnvStops' = r.wpEnvStops
    /\ dev' = [state |-> "exited", code |-> 1, by |-> "uncaughtException"]
    /\ UNCHANGED <<vite, sigints, timers, exitListeners, DevRest>>

NextDev == ViteExits \/ ViteExitEvent \/ DevSigint \/ TimerFires \/ UncaughtException
SpecDev == InitDev /\ [][NextDev]_vars

(***************************************************************************)
(* limitConcurrency of optimize-public-images, on its own                  *)
(***************************************************************************)
MaxItems == 4
DefaultMaxConcurrency == 10
\* CONFIG.maxConcurrency, line 21: parseInt(MAX_CONCURRENCY, 10) || 10 is the
\* variable's integer when it is one other than zero, and 10 otherwise
Concurrencies == {-1, 1, 2, 3, DefaultMaxConcurrency}

\* variant: the loop waits only when the set has grown beyond the limit
atLimit_Beyond(size, max) == size > max

\* line 84: inFlight.size >= maxConcurrency
atLimit(size, max) == size >= max

\* lines 79-88 from the current position up to the next await: each
\* iteration calls fn for the next item, adds its promise to inFlight and to
\* results, and awaits Promise.race(inFlight) when the set is at the limit;
\* after the last item the function awaits Promise.all(results)
RECURSIVE loopFrom(_, _, _)
loopFrom(st, n, max) ==
    IF st.next > n
    THEN [st EXCEPT !.pc = "all"]
    ELSE LET k == st.next
             started == [st EXCEPT !.next = k + 1,
                                   !.inFlight = @ \cup {k},
                                   !.running = @ \cup {k},
                                   !.invoked = Append(@, k)]
         IN IF atLimit(Cardinality(started.inFlight), max)
            THEN [started EXCEPT !.pc = "race", !.raceOn = started.inFlight]
            ELSE loopFrom(started, n, max)

\* optimizeImages calls limitConcurrency only for a non-empty list (line 155)
InitLc ==
    /\ items \in 1..MaxItems
    /\ maxConcurrency \in Concurrencies
    /\ lc = [NotCalled EXCEPT !.pc = "start"]
    /\ NormIdle
    /\ LogIdle
    /\ DevIdle
    /\ argv = <<>>
    /\ config \in {MakeConfig({"local"}, {}, {})}
    /\ localDirs = FileTargets
    /\ caller = "limitConcurrency"
    /\ pc = "none"
    /\ InitRest

LcRest == <<inputVars, normVars, logVars, devVars, items, maxConcurrency, localDirs, pc,
            exitCode, fatalMsg, mainVars, promptVars, trace, files, destDb, pipeVars>>

\* the call, up to its first await
LcCall ==
    /\ caller = "limitConcurrency"
    /\ lc.pc = "start"
    /\ lc' = loopFrom(lc, items, maxConcurrency)
    /\ UNCHANGED LcRest

\* an invocation of fn settles; the function optimizeImages passes catches
\* every error (lines 161-194), so its promise is fulfilled
FnSettles ==
    /\ caller = "limitConcurrency"
    /\ \E k \in lc.running :
          lc' = [lc EXCEPT !.running = @ \ {k}, !.order = Append(@, k)]
    /\ UNCHANGED LcRest

\* the finally callback of a settled invocation, line 80: the promise leaves
\* inFlight and is then settled itself
FinallyRuns ==
    /\ caller = "limitConcurrency"
    /\ \E k \in lc.inFlight \ lc.running :
          lc' = [lc EXCEPT !.inFlight = @ \ {k}]
    /\ UNCHANGED LcRest

\* Promise.race(inFlight) is settled once one of the promises it was given
\* is; the loop goes on up to its next await
RaceResumes ==
    /\ caller = "limitConcurrency"
    /\ lc.pc = "race"
    /\ lc.raceOn \ lc.inFlight # {}
    /\ lc' = loopFrom([lc EXCEPT !.raceOn = {}], items, maxConcurrency)
    /\ UNCHANGED LcRest

\* Promise.all(results), line 90, is fulfilled once every promise of results is
AllResumes ==
    /\ caller = "limitConcurrency"
    /\ lc.pc = "all"
    /\ lc.inFlight = {}
    /\ lc' = [lc EXCEPT !.pc = "returned"]
    /\ UNCHANGED LcRest

NextLc == LcCall \/ FnSettles \/ FinallyRuns \/ RaceResumes \/ AllResumes
SpecLc == InitLc /\ [][NextLc]_vars


(***************************************************************************)
(* Properties                                                              *)
(***************************************************************************)
Parsed == parseArgs(argv)
InMain == caller = "main"
HelpAsked == Truthy(Get(Parsed.values, "help"))
\* main() is past the environment and target collection of lines 419-458
Resolved == pc \notin {"start", "resolve", "dbexport"}

ErrorEvents(tr) == SelectSeq(tr, LAMBDA e : e.ev = "error")
IsPipeSpawn(e) == e.ev = "spawn" /\ e.op \in {"pipeSrc", "pipeSnk"}
PipeSpawned == \E i \in DOMAIN trace : IsPipeSpawn(trace[i])
DbDeclined == dbTyped # NotAsked /\ ~confirm(dbTyped, ExpectedYes)

\* C1: whenever the operator has declined the database overwrite prompt, the
\* run has started no subprocess, has written no file and has exit code 0.
ConfirmationGate ==
    (InMain /\ DbDeclined) => (NoSpawn /\ files = {} /\ exitCode = 0)

\* C2: the import pipe is spawned only after the local backup export has
\* closed with status 0 and while the backup file exists; once that export
\* has failed no pipe is ever spawned; the backup file is never removed.
BackupBeforeMutate ==
    InMain =>
      /\ \A i \in DOMAIN trace :
            IsPipeSpawn(trace[i]) =>
              /\ \E j \in 1..(i - 1) :
                    trace[j] = Ev("close", "exportLocal", localBackupPath, 0)
              /\ localBackupPath \in files
      /\ (\E j \in DOMAIN trace :
             /\ trace[j].op = "exportLocal"
             /\ trace[j].ev \in {"close", "error"}
             /\ trace[j].code # 0)
         => ~PipeSpawned

\* C2 witness: the import pipe has failed in a live run and the backup file
\* written before it is still there.
BackupKeptAfterFailedImport ==
    /\ InMain /\ PipeSpawned
    /\ settled = "rejected" /\ exitCode = 1
    /\ localBackupPath \in files

\* the dry-run flag stands on the command line, as -n or as --dry-run
HasDryRunFlag ==
    \E i \in DOMAIN argv :
       \/ argv[i].k = "short" /\ \E j \in DOMAIN argv[i].letters : argv[i].letters[j] = "n"
       \/ argv[i].k = "long" /\ argv[i].s = "dry-run"

\* C3: a run started with the dry-run flag (-n or --dry-run) never spawns a
\* subprocess.
DryRunSafety ==
    (InMain /\ HasDryRunFlag) => NoSpawn

\* the operations a dry run has logged, in order
DryOps(tr) ==
    LET d == SelectSeq(tr, LAMBDA e : e.ev = "dry")
    IN [i \in DOMAIN d |-> d[i].op]

\* the operations a live run executes for the given targets when every
\* confirmation is accepted and every subprocess succeeds
RECURSIVE LiveOps(_)
LiveOps(ts) ==
    IF ts = <<>> THEN <<>>
    ELSE LET t == Head(ts)
         IN (IF t \notin KnownTargets \/ ~allowed(t) THEN <<>>
             ELSE IF t \in FileTargets THEN <<"rsync">>
             ELSE databaseSteps(cmd, FALSE))
            \o LiveOps(Tail(ts))

RanToCompletion ==
    InMain /\ pc = "exit" /\ exitCode = 0 /\ cmd \in {"push", "pull"}
    /\ idx > Len(selected) /\ selected # <<>>

\* C4: a dry run that has gone through all its targets has logged exactly the
\* operations the live run with the same arguments and answers executes.
DryRunFidelity ==
    (RanToCompletion /\ dryRun) => DryOps(trace) = LiveOps(selected)

Terminated(proc) == proc.st \in {"closed", "errored"}
ClosedOk(proc) == proc = [st |-> "closed", code |-> 0]

\* C6: pipeProcesses calls resolve/reject at most once, and exactly once when
\* both processes have terminated; it resolves only if both closed with 0
\* and no spawn error occurred, and a spawn error always rejects.
PipeCompletion ==
    /\ settleCalls <= 1
    /\ settled = "resolved" =>
          (ClosedOk(srcSt) /\ ClosedOk(snkSt) /\ ErrorEvents(trace) = <<>>)
    /\ (Terminated(srcSt) /\ Terminated(snkSt)) =>
          /\ settleCalls = 1
          /\ settled = "resolved" <=>
                (ClosedOk(srcSt) /\ ClosedOk(snkSt) /\ ErrorEvents(trace) = <<>>)
    /\ ErrorEvents(trace) # <<>> => settled = "rejected"

\* C6 witness: both processes have closed, the source with 0 and the sink
\* with a non-zero status, and the pipe has been rejected.
PipeRejectedBySink ==
    /\ caller = "harness"
    /\ ClosedOk(srcSt) /\ snkSt.st = "closed" /\ snkSt.code = 1
    /\ settled = "rejected"

\* C7: when the pipe is rejected because a process exited non-zero, both the
\* source and the sink have terminated by the time it settles.
PipeWaitsForBoth ==
    (InMain /\ settled = "rejected" /\ ErrorEvents(trace) = <<>>)
        => (Terminated(srcSt) /\ Terminated(snkSt))

\* C8: on a push to production, any input other than the exact phrase
\* 'I WANT TO PUSH' ends the run with exit code 0 and without a subprocess.
ProductionGateExact ==
    (InMain /\ prodTyped # NotAsked /\ prodTyped # PhraseAsPrompted)
        => (NoSpawn /\ exitCode = 0)

EnvFlagValue == Get(Parsed.values, "env")
NoEnvFlag == EnvFlagValue = Undefined
NoEnvPositional ==
    Len(Parsed.positionals) < 2 \/ Parsed.positionals[2] \notin EnvWords
ImplicitCase ==
    InMain /\ cmd \in {"push", "pull"} /\ ~HelpAsked /\ NoEnvFlag /\ NoEnvPositional /\ Resolved

\* C9: push/pull without -e and without a positional environment runs on
\* 'staging' when that is the only non-local environment, fails with
\* AmbiguousEnvironment when there are several, with NoRemoteEnvironments
\* when there is none; db:export without -e fails; each failure has exit
\* code 1 and no subprocess.
ImplicitEnvironment ==
    /\ (ImplicitCase /\ nonLocalEnvs(config) = {"staging"})
          => (envName = "staging" /\ fatalMsg # "UnknownEnvironment")
    /\ (ImplicitCase /\ Cardinality(nonLocalEnvs(config)) > 1)
          => (exitCode = 1 /\ fatalMsg = "AmbiguousEnvironment" /\ NoSpawn)
    /\ (ImplicitCase /\ nonLocalEnvs(config) = {})
          => (exitCode = 1 /\ fatalMsg = "NoRemoteEnvironments" /\ NoSpawn)
    /\ (InMain /\ cmd = "db:export" /\ ~HelpAsked /\ NoEnvFlag /\ pc # "dbexport")
          => (exitCode = 1 /\ NoSpawn)

ExplicitCase ==
    InMain /\ cmd \in {"push", "pull"} /\ ~HelpAsked /\ ~NoEnvFlag /\ Resolved

\* C10: with -e/--env <name>, a name of the registry is the environment of
\* the run and every positional after the command is a target; a name that
\* is not in the registry fails with UnknownEnvironment and exit code 1.
ExplicitEnvironment ==
    /\ (ExplicitCase /\ EnvFlagValue \in allEnvs(config))
          => /\ envName = EnvFlagValue
             /\ \A i \in 2..Len(Parsed.positionals) :
                   \E j \in DOMAIN targets : targets[j] = Parsed.positionals[i]
    /\ (ExplicitCase /\ EnvFlagValue \notin allEnvs(config))
          => (exitCode = 1 /\ fatalMsg = "UnknownEnvironment")

ExportReplaceCase ==
    /\ InMain /\ pc = "exit"
    /\ argv = <<Word("db:export"), ShortArg(<<"e">>), Word("staging"),
                LongValArg("replace", "production")>>
    /\ {"staging", "production"} \subseteq allEnvs(config)
    /\ \A n \in {"staging", "production"} : config.environments[n].domain # NoDomain
ExportSpawns == SelectSeq(trace, LAMBDA e : e.ev = "spawn" /\ e.op = "exportRemote")

\* C11: 'db:export -e staging --replace=production' with both environments
\* defined ends, unless the remote export itself fails, with exactly one file,
\* the export file of the exports directory, written by one export invocation
\* that substitutes staging's domain by production's, and with the backup
\* directory of staging never created.
StandaloneExport ==
    ExportReplaceCase =>
        \/ fatalMsg = "RemoteExportFailed"
        \/ /\ exitCode = 0
           /\ files = {ExportFile}
           /\ Len(ExportSpawns) = 1
           /\ ExportSpawns[1].args = <<normalizeDomain(RemoteUrl("staging")),
                                       normalizeDomain(RemoteUrl("production"))>>
           /\ \A i \in DOMAIN trace :
                 trace[i].ev = "mkdir" => trace[i].tgt = "exports"

\* the dispatch loop of a push or pull has been entered
Dispatching == InMain /\ cmd \in {"push", "pull"} /\ idx >= 1
Denied(t) == <<t, cmd>> \in config.environments[envName].denied
\* the handler of target t has run: syncFiles reached rsync, or syncDatabase
\* created its backup directories
HandlerInvoked(t) ==
    \E i \in DOMAIN trace :
        IF t = "database"
        THEN trace[i].ev = "mkdir"
        ELSE trace[i].op = "rsync" /\ trace[i].tgt = t
LastEvent == trace[Len(trace)]

\* C12: the handler of a target that syncOptions sets to false for the
\* direction of the run is never invoked, with --all as with named targets;
\* the skip does not end the run (right after a skip the run has not failed,
\* unless the next target's local directory is missing), and every known
\* target the loop has gone past that is not set to false (with or without
\* an entry) had its handler invoked.
PermissionEnforcement ==
    Dispatching =>
        /\ \A t \in KnownTargets : Denied(t) => ~HandlerInvoked(t)
        /\ \A i \in 1..Len(selected) :
              (i < idx /\ selected[i] \in KnownTargets /\ ~Denied(selected[i]))
                  => HandlerInvoked(selected[i])
        /\ (trace # <<>> /\ LastEvent.ev = "skip")
              => (exitCode = 1 => fatalMsg = "LocalPathMissing")

\* with --all, a target was skipped as disallowed and a later one dispatched
SkippedThenDispatched ==
    /\ Dispatching /\ useAll
    /\ \E i, j \in DOMAIN trace :
          /\ i < j
          /\ trace[i].ev = "skip" /\ Denied(trace[i].tgt)
          /\ trace[j].ev = "mkdir"

\* a subprocess failed: it closed with a non-zero status or could not be spawned
IsFailure(e) == e.ev = "error" \/ (e.ev = "close" /\ e.code # 0)
IsMuPlugins23(e) == e.op = "rsync" /\ e.tgt = "muplugins" /\ e.code = 23
IsExportSpawn(e) == e.ev = "spawn" /\ e.op \in {"exportLocal", "exportRemote"}
StartsWork(e) == e.ev \in {"spawn", "dry", "mkdir"}
Aborted(i) == IsFailure(trace[i]) /\ ~IsMuPlugins23(trace[i])

\* C13: after a subprocess failure other than exit 23 of the mu-plugins rsync,
\* the run starts no further step or target and ends with exit code 1 (the
\* rejected pipe promise is the only thing still to be delivered); every
\* backup or export file written before is still there, and a database sync
\* completed before stays as it was left.
FailureAborts ==
    InMain =>
      \A i \in DOMAIN trace :
        Aborted(i) =>
          /\ \A j \in DOMAIN trace : j > i => ~StartsWork(trace[j])
          /\ exitCode = 1 \/ (exitCode = Running /\ pc = "pipeWait" /\ settled = "rejected")
          /\ pc = "exit" => exitCode = 1
          /\ \A k \in 1..i : IsExportSpawn(trace[k]) => trace[k].tgt \in files
          /\ (\E k \in 1..i : trace[k].op = "dbSync") => destDb = "rewritten"

\* a file target failed after the database had been synced and backed up
FailedAfterCompletedTarget ==
    /\ InMain /\ exitCode = 1
    /\ \E k, i \in DOMAIN trace :
          /\ k < i
          /\ trace[k].op = "dbSync"
          /\ Aborted(i) /\ trace[i].op = "rsync"
    /\ LocalBackupFile \in files

IsRsyncCall(e) == e.op = "rsync" /\ e.ev \in {"spawn", "dry"}
HasArg(e, a) == \E k \in DOMAIN e.args : e.args[k] = a

\* C14: every invocation of rsync for a file target carries --delete-before
\* exactly when the target is not uploads.
DeletionPolicy ==
    InMain =>
      \A i \in DOMAIN trace :
        IsRsyncCall(trace[i])
            => (HasArg(trace[i], "--delete-before") <=> trace[i].tgt # "uploads")

\* the history entry with which the handler of a target starts
IsDispatch(e) == IsRsyncCall(e) \/ (e.ev = "mkdir" /\ e.tgt = "local")
DispatchedTarget(e) == IF e.ev = "mkdir" THEN "database" ELSE e.tgt
MapPos(t) == CHOOSE k \in DOMAIN MapKeys : MapKeys[k] = t

\* C15: targets are dispatched in one fixed order whatever the command line:
\* the order of the handler map, which is the order --all and the letter
\* flags give; a target is never dispatched before one that precedes it there.
FixedDispatchOrder ==
    InMain =>
      \A i, j \in DOMAIN trace :
        (i < j /\ IsDispatch(trace[i]) /\ IsDispatch(trace[j]))
            => MapPos(DispatchedTarget(trace[i])) < MapPos(DispatchedTarget(trace[j]))

ClusterTargets == {"themes", "plugins", "uploads", "database"}
ClusterLetters == {"t", "p", "u", "d"}
Letters(a) == {a.letters[k] : k \in DOMAIN a.letters}
Range(seq) == {seq[k] : k \in DOMAIN seq}
TimesDispatched(t) ==
    Cardinality({i \in DOMAIN trace :
                    IsDispatch(trace[i]) /\ DispatchedTarget(trace[i]) = t})
\* a push or pull whose environment resolved, whose only single-dash words
\* are arrangements of the letters t, p, u, d, one of them with all four,
\* and whose plain words are the command, environment names and names of
\* the four targets
ClusterCase ==
    /\ InMain /\ cmd \in {"push", "pull"} /\ ~useAll
    /\ pc \notin {"start", "resolve"} /\ envName \in allEnvs(config)
    /\ \E i \in DOMAIN argv : argv[i].k = "short" /\ Letters(argv[i]) = ClusterLetters
    /\ \A i \in DOMAIN argv : argv[i].k = "short" => Letters(argv[i]) \subseteq ClusterLetters
    /\ \A i \in DOMAIN argv :
          argv[i].k = "word" => argv[i].s \in ClusterTargets \cup EnvWords \cup {cmd}

\* C16: a cluster of the letters t, p, u, d in any arrangement, with letters
\* repeated or targets also named in full, gives the target list exactly
\* themes, plugins, uploads, database, each once, and no target is
\* dispatched twice.
ClusterExpansion ==
    ClusterCase =>
        /\ Range(targets) = ClusterTargets
        /\ Len(targets) = 4
        /\ idx >= 1 => selected = targets
        /\ \A t \in KnownTargets : TimesDispatched(t) <= 1

\* -duptd together with the name themes: all four targets were dispatched
PermutedClusterDispatched ==
    /\ ClusterCase
    /\ \E i \in DOMAIN argv : argv[i].letters = <<"d", "u", "p", "t", "d">>
    /\ \E i \in DOMAIN argv : argv[i].k = "word" /\ argv[i].s = "themes"
    /\ \A t \in ClusterTargets : TimesDispatched(t) = 1

\* a live 'push staging database' with local domain dev.local and staging
\* domain staging.example.com that went through with every subprocess closing 0
EndToEndPush ==
    /\ RanToCompletion
    /\ argv = <<Word("push"), Word("staging"), Word("database")>>
    /\ config.environments["local"].domain = <<"http://", "dev.local">>
    /\ config.environments["staging"].domain = <<"https://", "staging.example.com", "/">>
    /\ confirm(dbTyped, ExpectedYes)
    /\ \A i \in DOMAIN trace : ~IsFailure(trace[i])
SpawnOps == [i \in DOMAIN Spawns(trace) |-> Spawns(trace)[i].op]

\* C17: that run has written exactly one file, the local backup, then spawned
\* exactly one export-to-import pipe pair, then exactly one search-replace,
\* on the remote side, from dev.local to staging.example.com.
EndToEndPushSteps ==
    EndToEndPush =>
        /\ files = {LocalBackupFile}
        /\ SpawnOps = <<"exportLocal", "pipeSrc", "pipeSnk", "searchReplace">>
        /\ Spawns(trace)[1].tgt = LocalBackupFile
        /\ Spawns(trace)[4].tgt = "remote"
        /\ Spawns(trace)[4].args = << <<"dev.local">>, <<"staging.example.com">> >>

HasUnknownTarget ==
    Dispatching /\ \E i \in DOMAIN selected : selected[i] \notin KnownTargets

\* C18: a push or pull whose target list holds a name that is not a known
\* target starts no subprocess, dispatches nothing, writes nothing, and ends
\* with exit code 1.
UnknownTargetFatal ==
    HasUnknownTarget =>
        /\ NoSpawn
        /\ \A i \in DOMAIN trace : ~IsDispatch(trace[i])
        /\ files = {}
        /\ pc = "exit" => exitCode = 1

IsRsyncFailure(e) == e.op = "rsync" /\ IsFailure(e)

\* C19: exit status 23 of the mu-plugins rsync is followed by a warning and
\* the loop moves on to the next target; every other rsync failure (another
\* status or a spawn error for mu-plugins, any failure, 23 included, for
\* another target) is the last entry of the history, leaves the loop on that
\* target and ends the run with exit code 1.
MuPluginsTolerance ==
    InMain =>
      \A i \in DOMAIN trace :
        IsRsyncFailure(trace[i]) =>
          IF trace[i].tgt = "muplugins" /\ trace[i].code = 23
          THEN /\ i < Len(trace)
               /\ trace[i + 1].ev = "warn" /\ trace[i + 1].op = "skipMuPlugins"
               /\ \E k \in DOMAIN selected : k < idx /\ selected[k] = "muplugins"
          ELSE /\ i = Len(trace)
               /\ selected[idx] = trace[i].tgt
               /\ pc = "exit" /\ exitCode = 1

\* mu-plugins ended with 23 and a later target was dispatched
MuPluginsSkippedThenNext ==
    /\ InMain
    /\ \E i, j \in DOMAIN trace :
          /\ i < j
          /\ IsRsyncFailure(trace[i]) /\ IsMuPlugins23(trace[i])
          /\ IsDispatch(trace[j])

\* a push or pull whose environment resolved and whose local or selected
\* remote environment declares no domain
DomainlessRun ==
    /\ InMain /\ cmd \in {"push", "pull"}
    /\ pc \notin {"start", "resolve"} /\ envName \in allEnvs(config)
    /\ \/ "local" \notin allEnvs(config)
       \/ config.environments["local"].domain = NoDomain
       \/ config.environments[envName].domain = NoDomain
ProductionDeclined == prodTyped # NotAsked /\ ~confirm(prodTyped, ExpectedPhrase)

NormalizeIdempotent ==
    Len(normalized) = 2 => normalized[2] = normalized[1]

\* a history entry of a domain substitution the program issues
IsSubstitution(e) ==
    /\ e.ev \in {"spawn", "dry"}
    /\ e.op \in {"searchReplace", "exportRemote"}
    /\ e.args # <<>>
IsBareHost(d) == d # <<>> /\ d[1] \notin HttpSchemes /\ d[Len(d)] # "/"
NormalizedHosts ==
    {normalizeDomain(config.environments[n].domain) : n \in allEnvs(config)}

\* C23: both tokens of every substitution (search-replace after a push or a
\* pull, search-replace --export of db:export --replace) are normalized
\* hosts of configured environments, without scheme and trailing slash.
SubstitutionTokensBare ==
    InMain =>
      \A i \in DOMAIN trace :
        IsSubstitution(trace[i]) =>
          \A k \in DOMAIN trace[i].args :
            IsBareHost(trace[i].args[k]) /\ trace[i].args[k] \in NormalizedHosts

\* C22: after every call of log(): if the active log was above the ceiling
\* it is now the archive named after the current time and the active log
\* holds the new entry alone; at most MAX_LOG_FILES archives exist; every
\* archive removed is older than every archive kept, and none is removed
\* beyond what the bound requires.
LogRotationRetention ==
    (caller = "log" /\ writes > 0) =>
        /\ lastWrite.over => (now \in archives /\ logSize = lastWrite.len)
        /\ logExists
        /\ Cardinality(archives) <= 10
        /\ \A r \in lastWrite.removed : \A k \in archives : r < k
        /\ lastWrite.removed # {} => Cardinality(archives) = 10
        /\ lastWrite.removed \cap archives = {}

\* a call rotated the log and retention removed more than one archive
RotatedAndTrimmed ==
    /\ caller = "log" /\ writes > 0
    /\ lastWrite.over
    /\ Cardinality(lastWrite.removed) >= 2

\* C24: in the start-dev script `wp-env stop` is run at most once, and when
\* the script's process has exited it has been run.
DevCleanup ==
    (caller = "start-dev") =>
        /\ wpEnvStops <= 1
        /\ dev.state = "exited" => wpEnvStops = 1

\* the script exited after two SIGINT signals and a forced kill of the child
ExitedAfterForcedKill ==
    /\ caller = "start-dev"
    /\ dev.state = "exited"
    /\ dev.by = "viteExit"
    /\ sigints >= 2
    /\ vite.by = "SIGKILL"

TimesInvoked(k) == Cardinality({p \in DOMAIN lc.invoked : lc.invoked[p] = k})
InvokedAtMostOnce == \A k \in 1..items : TimesInvoked(k) <= 1
ReturnedAfterAll ==
    lc.pc = "returned" => (lc.running = {} /\ \A k \in 1..items : TimesInvoked(k) = 1)

====
